---- MODULE Spec2Model ----
(***************************************************************************)
(* Model of Todo.py, a menu driven task manager that keeps its tasks in    *)
(* tasks.json.  The state of the program is the content of that file: no   *)
(* handler keeps anything in memory between two calls.  Every handler      *)
(* (add_task, remove_task, update_task_status, edit_task, list_tasks,      *)
(* search_tasks) is one action, which reads the file, works on a local     *)
(* copy and writes the whole list back.                                    *)
(*                                                                         *)
(* Text is a sequence of one-character strings, so that str.strip,         *)
(* str.lower and the substring test are computed, not assumed.  The two    *)
(* timestamps (created, completed_date) are strftime("%Y-%m-%d %H:%M:%S")  *)
(* of datetime.now(): a fixed width, zero padded text whose lexicographic  *)
(* order is the order of the instants, modelled by the number of the       *)
(* second.  datetime.now() is local wall-clock time and is an input of the *)
(* action: it need not grow from one call to the next.                     *)
(* The file system is taken to work: open, json.load and json.dump do not  *)
(* raise, so load_tasks returns what save_tasks wrote.                     *)
(***************************************************************************)
EXTENDS Integers, Sequences, FiniteSets

VARIABLES
    file,    \* tasks.json: the sequence of task records
    last,    \* the handler that ran last, its resolved inputs and its outcome
    shown,   \* the tasks the last list_tasks / search_tasks printed, in order
    hist,    \* the mutating handlers that ran since the start (scenarios)
    pc,      \* two program instances: where each stands inside add_task
    loc      \* two program instances: the locals of add_task

vars == <<file, last, shown, hist, pc, loc>>

----------------------------------------------------------------------------
\* Bounds of the model.

\* the most tasks the file holds
MaxTasks == 2
\* datetime.now() is drawn from 1..MaxTime
MaxTime == 1
\* the length of the recorded history in ScenarioSpec
MaxHist == 4
\* the most tasks of a file in ViewSpec
MaxView == 3

Times == 1..MaxTime

----------------------------------------------------------------------------
\* Text.

LowerChar(c) ==
    CASE c = "A" -> "a"
      [] c = "B" -> "b"
      [] c = "G" -> "g"
      [] OTHER -> c

\* str.lower()
Lower(s) == [i \in 1..Len(s) |-> LowerChar(s[i])]

RECURSIVE LStrip(_)
LStrip(s) ==
    IF s # <<>> /\ Head(s) = " " THEN LStrip(Tail(s)) ELSE s

RECURSIVE RStrip(_)
RStrip(s) ==
    IF s # <<>> /\ s[Len(s)] = " " THEN RStrip(SubSeq(s, 1, Len(s) - 1)) ELSE s

\* str.strip()
Strip(s) == RStrip(LStrip(s))

\* s.startswith(p)
StartsWith(s, p) ==
    /\ Len(p) <= Len(s)
    /\ SubSeq(s, 1, Len(p)) = p

\* the Python test `k in s` on two strings
RECURSIVE In(_, _)
In(k, s) ==
    IF StartsWith(s, k) THEN TRUE
    ELSE IF s = <<>> THEN FALSE
    ELSE In(k, Tail(s))

sAb == <<"A", "b">>
sb == <<"b">>
saB == <<"a", "B">>
sGeneral == <<"G", "e", "n", "e", "r", "a", "l">>

----------------------------------------------------------------------------
\* Optional values: Python's None, or a value.

NoneTime == [isNone |-> TRUE, val |-> 0]
SomeTime(t) == [isNone |-> FALSE, val |-> t]

\* a due date is None, or the text that was typed: "" or a date y-m-d
NoneDate == [isNone |-> TRUE, val |-> <<>>]
SomeDate(d) == [isNone |-> FALSE, val |-> d]

----------------------------------------------------------------------------
\* The enumerations, in definition order (list(Priority), list(Status)).

Priority == <<"LOW", "MEDIUM", "HIGH">>
Status == <<"PENDING", "COMPLETED", "IN_PROGRESS">>

\* What is typed at a prompt that is read with int(...): nothing, a number,
\* or text that is no number.
EmptyInput == [kind |-> "empty", val |-> 0]
NumInput(v) == [kind |-> "int", val |-> v]
BadInput == [kind |-> "bad", val |-> 0]
\* the prompt was not reached
NoInput == [kind |-> "none", val |-> 0]

\* int(text): a number, or ValueError
BadInt == [ok |-> FALSE, val |-> 0]
Num(v) == [ok |-> TRUE, val |-> v]

\* list(enum)[choice - 1] as Python indexes a list of three: 1..3 are the
\* offered choices, 0, -1, -2 index from the end, anything else raises
\* IndexError.  "" stands for the exception (ValueError or IndexError).
Pick(enum, n) ==
    LET idx == n.val - 1
    IN  IF ~n.ok THEN ""
        ELSE IF idx \in 0..(Len(enum) - 1) THEN enum[idx + 1]
        ELSE IF idx \in (0 - Len(enum))..(0 - 1) THEN enum[Len(enum) + idx + 1]
        ELSE ""

\* datetime.strptime(text, "%Y-%m-%d") accepts the text: d is <<y, m, d>>
DaysIn(y, m) ==
    IF m = 2 THEN (IF y % 4 = 0 /\ (y % 100 # 0 \/ y % 400 = 0) THEN 29 ELSE 28)
    ELSE IF m \in {4, 6, 9, 11} THEN 30 ELSE 31

IsDate(d) ==
    /\ Len(d) = 3
    /\ d[1] \in 1..9999
    /\ d[2] \in 1..12
    /\ d[3] \in 1..DaysIn(d[1], d[2])

----------------------------------------------------------------------------
\* load_tasks and save_tasks.

\* load_tasks(): the list in the file
load_tasks == file

\* save_tasks(tasks): the file after the call
save_tasks(tasks) == tasks

\* FirstIndex with the search index starting at the first task, not at None
FirstIndexOrFirst(tasks, task_id) ==
    IF \E i \in 1..Len(tasks) : tasks[i].id = task_id
    THEN CHOOSE i \in 1..Len(tasks) :
            /\ tasks[i].id = task_id
            /\ \A j \in 1..(i - 1) : tasks[j].id # task_id
    ELSE IF tasks # <<>> THEN 1 ELSE 0

\* the index of the first task whose id is task_id, 0 for None
FirstIndex(tasks, task_id) ==
    IF \E i \in 1..Len(tasks) : tasks[i].id = task_id
    THEN CHOOSE i \in 1..Len(tasks) :
            /\ tasks[i].id = task_id
            /\ \A j \in 1..(i - 1) : tasks[j].id # task_id
    ELSE 0

\* list.pop(i)
Pop(tasks, i) == SubSeq(tasks, 1, i - 1) \o SubSeq(tasks, i + 1, Len(tasks))

\* what a handler did: the handler, how it ended, and what it was given as
\* typed (the id, the description or keyword, the category, the number typed
\* for a priority or a status, the status filter, the clock); a field that
\* the handler did not read is at its zero
Report(op, outcome) ==
    [op |-> op, outcome |-> outcome, id |-> 0, text |-> <<>>, cat |-> <<>>,
     choice |-> NoInput, status |-> "", at |-> 0]

\* the locals of an add_task that has not started: task_data and tasks are
\* unbound (task_data is a sequence of at most one record)
NoLocals == [task_data |-> <<>>, tasks |-> <<>>, reported |-> ""]

----------------------------------------------------------------------------
\* int(text): ValueError on "" and on text that is no number
ParseInt(x) == IF x.kind = "int" THEN Num(x.val) ELSE BadInt

\* int(text or default)
ParseIntOr(x, default) == IF x.kind = "empty" THEN Num(default) ELSE ParseInt(x)

----------------------------------------------------------------------------
\* add_task

\* the priority add_task resolves: the choice, or MEDIUM on ValueError and
\* IndexError
AddPriority(x) ==
    LET p == Pick(Priority, ParseIntOr(x, 2))
    IN  IF p = "" THEN "MEDIUM" ELSE p

\* input(...).strip() or "General"
AddCategory(raw) == IF Strip(raw) = <<>> THEN sGeneral ELSE Strip(raw)

\* the due date add_task stores: "" when nothing is typed, the text when
\* strptime accepts it, None otherwise
AddDueDate(raw) ==
    IF raw = <<>> THEN SomeDate(<<>>)
    ELSE IF IsDate(raw) THEN SomeDate(raw)
    ELSE NoneDate

\* NextId as one more than the greatest id in use
NextIdMax(tasks) ==
    IF tasks = <<>> THEN 1
    ELSE 1 + CHOOSE m \in {tasks[i].id : i \in 1..Len(tasks)} :
                \A i \in 1..Len(tasks) : tasks[i].id <= m

\* "id": len(load_tasks()) + 1
NextId(tasks) == Len(tasks) + 1

\* TaskData with the text as typed, not stripped
TaskDataRaw(inp, now, tasks) ==
    [id |-> NextId(tasks),
     task |-> inp.desc,
     priority |-> AddPriority(inp.prio),
     status |-> Status[1],
     category |-> AddCategory(inp.cat),
     created |-> now,
     due_date |-> AddDueDate(inp.due),
     completed_date |-> NoneTime]

\* the record add_task builds
TaskData(inp, now, tasks) ==
    [id |-> NextId(tasks),
     task |-> Strip(inp.desc),
     priority |-> AddPriority(inp.prio),
     status |-> Status[1],
     category |-> AddCategory(inp.cat),
     created |-> now,
     due_date |-> AddDueDate(inp.due),
     completed_date |-> NoneTime]

add_task(inp, now) ==
    LET task_text == Strip(inp.desc)
        task_data == TaskData(inp, now, load_tasks)
        tasks == Append(load_tasks, task_data)
    IN  IF task_text = <<>>
        THEN /\ last' = [Report("add", "validation") EXCEPT !.text = inp.desc]
             /\ UNCHANGED file
        ELSE /\ Len(file) < MaxTasks
             /\ file' = save_tasks(tasks)
             /\ last' = [Report("add", "ok") EXCEPT
                            !.text = inp.desc, !.choice = inp.prio,
                            !.cat = inp.cat, !.at = now]

----------------------------------------------------------------------------
\* remove_task

remove_task(idin) ==
    LET task_id == ParseInt(idin)
        tasks == load_tasks
        task_to_remove == FirstIndex(tasks, task_id.val)
    IN  IF load_tasks = <<>>
        THEN /\ last' = Report("remove", "no_tasks")
             /\ UNCHANGED file
        ELSE IF ~task_id.ok
        THEN /\ last' = Report("remove", "invalid_input")
             /\ UNCHANGED file
        ELSE IF task_to_remove # 0
        THEN /\ file' = save_tasks(Pop(tasks, task_to_remove))
             /\ last' = [Report("remove", "ok") EXCEPT !.id = task_id.val]
        ELSE /\ last' = [Report("remove", "not_found") EXCEPT !.id = task_id.val]
             /\ UNCHANGED file

----------------------------------------------------------------------------
\* update_task_status

\* the completion timestamp that goes with a status
CompletedDate(new_status, now) ==
    IF new_status = "COMPLETED" THEN SomeTime(now) ELSE NoneTime

\* WithStatus without the else branch that clears the timestamp
WithStatusKeepsDate(task, new_status, now) ==
    [task EXCEPT !.status = new_status,
                 !.completed_date = IF new_status = "COMPLETED"
                                    THEN SomeTime(now) ELSE @]

\* the task after lines 175-180
WithStatus(task, new_status, now) ==
    [task EXCEPT !.status = new_status,
                 !.completed_date = CompletedDate(new_status, now)]

update_task_status(idin, choicein, now) ==
    LET task_id == ParseInt(idin)
        tasks == load_tasks
        task_index == FirstIndex(tasks, task_id.val)
        status_choice == ParseInt(choicein)
        new_status == Pick(Status, status_choice)
    IN  IF load_tasks = <<>>
        THEN /\ last' = Report("update", "no_tasks")
             /\ UNCHANGED file
        ELSE IF ~task_id.ok
        THEN /\ last' = Report("update", "invalid_input")
             /\ UNCHANGED file
        ELSE IF task_index = 0
        THEN /\ last' = [Report("update", "not_found") EXCEPT !.id = task_id.val]
             /\ UNCHANGED file
        ELSE IF new_status = ""
        THEN /\ last' = [Report("update", "invalid_input") EXCEPT
                            !.id = task_id.val, !.choice = choicein]
             /\ UNCHANGED file
        ELSE /\ file' = save_tasks([tasks EXCEPT ![task_index] =
                                      WithStatus(@, new_status, now)])
             /\ last' = [Report("update", "ok") EXCEPT
                            !.id = task_id.val, !.choice = choicein, !.at = now]

----------------------------------------------------------------------------
\* edit_task

\* the priority edit_task writes: "" when the field is kept (nothing typed,
\* ValueError or IndexError)
EditPriority(x) ==
    IF x.kind = "empty" THEN "" ELSE Pick(Priority, ParseInt(x))

\* Edited with the category written without the test for an empty text
EditedCategoryAlways(task, new_description, new_priority, new_category) ==
    [task EXCEPT
        !.task = IF new_description # <<>> THEN new_description ELSE @,
        !.priority = IF new_priority # "" THEN new_priority ELSE @,
        !.category = new_category]

\* the task after lines 211-230; an empty text keeps the field
Edited(task, new_description, new_priority, new_category) ==
    [task EXCEPT
        !.task = IF new_description # <<>> THEN new_description ELSE @,
        !.priority = IF new_priority # "" THEN new_priority ELSE @,
        !.category = IF new_category # <<>> THEN new_category ELSE @]

edit_task(idin, descin, prioin, catin) ==
    LET task_id == ParseInt(idin)
        tasks == load_tasks
        task_index == FirstIndex(tasks, task_id.val)
        new_description == Strip(descin)
        new_priority == EditPriority(prioin)
        new_category == Strip(catin)
    IN  IF load_tasks = <<>>
        THEN /\ last' = Report("edit", "no_tasks")
             /\ UNCHANGED file
        ELSE IF ~task_id.ok
        THEN /\ last' = Report("edit", "invalid_input")
             /\ UNCHANGED file
        ELSE IF task_index = 0
        THEN /\ last' = [Report("edit", "not_found") EXCEPT !.id = task_id.val]
             /\ UNCHANGED file
        ELSE /\ file' = save_tasks([tasks EXCEPT ![task_index] =
                          Edited(@, new_description, new_priority, new_category)])
             /\ last' = [Report("edit", "ok") EXCEPT
                            !.id = task_id.val, !.text = descin,
                            !.choice = prioin, !.cat = catin]

----------------------------------------------------------------------------
\* list_tasks

\* priority_order.get(priority, 1)
priority_order(p) ==
    CASE p = "HIGH" -> 0
      [] p = "MEDIUM" -> 1
      [] p = "LOW" -> 2
      [] OTHER -> 1

\* the sort key of line 103
SortKey(t) == <<priority_order(t.priority), t.created>>

\* the order of Python on two such tuples
KeyLess(a, b) == a[1] < b[1] \/ (a[1] = b[1] /\ a[2] < b[2])

\* Insert that puts a task before the tasks of the same key
RECURSIVE InsertBeforeTies(_, _)
InsertBeforeTies(sorted, t) ==
    IF sorted = <<>> THEN <<t>>
    ELSE IF ~KeyLess(SortKey(sorted[Len(sorted)]), SortKey(t))
         THEN Append(InsertBeforeTies(SubSeq(sorted, 1, Len(sorted) - 1), t),
                     sorted[Len(sorted)])
         ELSE Append(sorted, t)

\* list.sort is stable: a task goes behind every task whose key is not greater
RECURSIVE Insert(_, _)
Insert(sorted, t) ==
    IF sorted = <<>> THEN <<t>>
    ELSE IF KeyLess(SortKey(t), SortKey(sorted[Len(sorted)]))
         THEN Append(Insert(SubSeq(sorted, 1, Len(sorted) - 1), t),
                     sorted[Len(sorted)])
         ELSE Append(sorted, t)

RECURSIVE Sort(_)
Sort(tasks) ==
    IF tasks = <<>> THEN <<>>
    ELSE Insert(Sort(SubSeq(tasks, 1, Len(tasks) - 1)), tasks[Len(tasks)])

\* lines 89-92: "" and None switch a filter off
StatusFilter(tasks, filter_status) ==
    IF filter_status = "" THEN tasks
    ELSE SelectSeq(tasks, LAMBDA t : t.status = filter_status)

CategoryFilter(tasks, filter_category) ==
    IF filter_category = <<>> THEN tasks
    ELSE SelectSeq(tasks, LAMBDA t : Lower(t.category) = Lower(filter_category))

list_tasks(filter_status, filter_category) ==
    LET tasks == CategoryFilter(StatusFilter(load_tasks, filter_status),
                                filter_category)
    IN  /\ UNCHANGED file
        /\ IF tasks = <<>>
           THEN /\ shown' = <<>>
                /\ last' = [Report("list", "no_tasks") EXCEPT
                               !.status = filter_status, !.cat = filter_category]
           ELSE /\ shown' = Sort(tasks)
                /\ last' = [Report("list", "ok") EXCEPT
                               !.status = filter_status, !.cat = filter_category]

----------------------------------------------------------------------------
\* search_tasks

\* search_match on the description alone
search_match_task_only(keyword, task) == In(keyword, Lower(task.task))

\* the test of lines 249-250
search_match(keyword, task) ==
    In(keyword, Lower(task.task)) \/ In(keyword, Lower(task.category))

search_tasks(raw) ==
    LET keyword == Lower(Strip(raw))
        tasks == load_tasks
        matching_tasks == SelectSeq(tasks, LAMBDA t : search_match(keyword, t))
    IN  /\ UNCHANGED file
        /\ IF keyword = <<>>
           THEN /\ shown' = <<>>
                /\ last' = [Report("search", "validation") EXCEPT !.text = raw]
           ELSE IF matching_tasks = <<>>
           THEN /\ shown' = <<>>
                /\ last' = [Report("search", "no_match") EXCEPT !.text = raw]
           ELSE /\ shown' = matching_tasks
                /\ last' = [Report("search", "ok") EXCEPT !.text = raw]

----------------------------------------------------------------------------
\* The inputs the handlers are run on.

AddInputs ==
    { [desc |-> <<" ", "A", "b", " ">>, prio |-> EmptyInput, cat |-> <<>>,
       due |-> <<>>],
      [desc |-> sb, prio |-> NumInput(3), cat |-> saB, due |-> <<2024, 2, 29>>],
      [desc |-> sb, prio |-> NumInput(0), cat |-> <<" ", "a", "B">>,
       due |-> <<2025, 2, 29>>],
      [desc |-> sAb, prio |-> NumInput(4), cat |-> <<" ">>, due |-> <<>>],
      [desc |-> <<" ">>, prio |-> NumInput(1), cat |-> saB, due |-> <<>>],
      [desc |-> <<>>, prio |-> BadInput, cat |-> <<>>, due |-> <<>>] }

IdInputs == {BadInput} \cup {NumInput(v) : v \in 1..(MaxTasks + 1)}

ChoiceInputs == {BadInput} \cup {NumInput(v) : v \in {0 - 3, 0, 1, 2, 3, 4}}

EditDescInputs == {<<>>, <<"b", " ">>}
EditPrioInputs == {EmptyInput, NumInput(1), NumInput(4)}
EditCatInputs == {<<>>, saB}

----------------------------------------------------------------------------
\* The program run by one user: the menu loop of main calls one handler
\* after the other.

Init ==
    /\ file = <<>>
    /\ last = Report("init", "ok")
    /\ shown = <<>>
    /\ hist = <<>>
    /\ pc = [p \in {1, 2} |-> "idle"]
    /\ loc = [p \in {1, 2} |-> NoLocals]

Add ==
    /\ \E inp \in AddInputs, now \in Times : add_task(inp, now)
    /\ UNCHANGED <<shown, hist, pc, loc>>

Remove ==
    /\ \E idin \in IdInputs : remove_task(idin)
    /\ UNCHANGED <<shown, hist, pc, loc>>

UpdateStatus ==
    /\ \E idin \in IdInputs, choicein \in ChoiceInputs, now \in Times :
          update_task_status(idin, choicein, now)
    /\ UNCHANGED <<shown, hist, pc, loc>>

Edit ==
    /\ \E idin \in IdInputs, descin \in EditDescInputs,
          prioin \in EditPrioInputs, catin \in EditCatInputs :
          edit_task(idin, descin, prioin, catin)
    /\ UNCHANGED <<shown, hist, pc, loc>>

Next == Add \/ Remove \/ UpdateStatus \/ Edit

Spec == Init /\ [][Next]_vars

----------------------------------------------------------------------------
\* Scenarios: the same add_task and remove_task, with the handlers that
\* changed the file written down in hist (a remove with the index it popped).

ScenarioAdd ==
    /\ Len(hist) < MaxHist
    /\ \E inp \in AddInputs, now \in Times : add_task(inp, now)
    /\ hist' = IF last'.outcome = "ok" THEN Append(hist, <<"add", 0>>) ELSE hist
    /\ UNCHANGED <<shown, pc, loc>>

ScenarioRemove ==
    /\ Len(hist) < MaxHist
    /\ \E idin \in IdInputs : remove_task(idin)
    /\ hist' = IF last'.outcome = "ok"
               THEN Append(hist, <<"remove", FirstIndex(file, last'.id)>>)
               ELSE hist
    /\ UNCHANGED <<shown, pc, loc>>

ScenarioNext == ScenarioAdd \/ ScenarioRemove

ScenarioSpec == Init /\ [][ScenarioNext]_vars

----------------------------------------------------------------------------
\* The views: list_tasks and search_tasks on a file of up to MaxView tasks.
\* Neither writes the file, so the file is drawn at the start.  hist notes
\* that list_tasks ran.

ViewKinds ==
    { [task |-> sAb, category |-> sGeneral, status |-> "PENDING"],
      [task |-> sb, category |-> saB, status |-> "COMPLETED"],
      [task |-> sb, category |-> sGeneral, status |-> "PENDING"] }

ViewCreated == 1..2

ViewTask(i, k, p, c) ==
    [id |-> i,
     task |-> k.task,
     priority |-> p,
     status |-> k.status,
     category |-> k.category,
     created |-> c,
     due_date |-> SomeDate(<<>>),
     completed_date |-> CompletedDate(k.status, c)]

\* a file of n tasks, the ids in the order of the Adds
ViewFile(n, k, p, c) == [i \in 1..n |-> ViewTask(i, k[i], p[i], c[i])]

ListStatusInputs == {"", "COMPLETED", "IN_PROGRESS"}
ListCategoryInputs == {<<>>, <<"A", "B">>, sb}
SearchInputs == {<<" ">>, <<" ", "a", "B">>, <<"G", "E">>}

ViewInit ==
    /\ \E n \in 0..MaxView :
          \E k \in [1..n -> ViewKinds], p \in [1..n -> {"LOW", "MEDIUM", "HIGH"}],
             c \in [1..n -> ViewCreated] :
             file = ViewFile(n, k, p, c)
    /\ last = Report("init", "ok")
    /\ shown = <<>>
    /\ hist = <<>>
    /\ pc = [p \in {1, 2} |-> "idle"]
    /\ loc = [p \in {1, 2} |-> NoLocals]

List ==
    /\ \E fs \in ListStatusInputs, fc \in ListCategoryInputs : list_tasks(fs, fc)
    /\ hist' = <<"list">>
    /\ UNCHANGED <<pc, loc>>

Search ==
    /\ \E raw \in SearchInputs : search_tasks(raw)
    /\ UNCHANGED <<hist, pc, loc>>

ViewNext == List \/ Search

ViewSpec == ViewInit /\ [][ViewNext]_vars

----------------------------------------------------------------------------
\* Two instances of the program on the same tasks.json, each running
\* add_task once.  The file is read and written whole and nothing locks it:
\* the steps of one instance interleave with those of the other at the two
\* load_tasks calls (lines 70 and 80) and at save_tasks (line 82).  hist is
\* the order of the loads of line 80 and of the saves.

\* lines 40-78: the prompts are answered and task_data is built
ConcBuild(p, inp, now) ==
    /\ pc[p] = "idle"
    /\ IF Strip(inp.desc) = <<>>
       THEN /\ pc' = [pc EXCEPT ![p] = "done"]
            /\ loc' = [loc EXCEPT ![p].reported = "validation"]
       ELSE /\ pc' = [pc EXCEPT ![p] = "built"]
            /\ loc' = [loc EXCEPT ![p].task_data = <<TaskData(inp, now, load_tasks)>>]
    /\ UNCHANGED <<file, last, shown, hist>>

\* line 80: tasks = load_tasks()
ConcLoad(p) ==
    /\ pc[p] = "built"
    /\ pc' = [pc EXCEPT ![p] = "loaded"]
    /\ loc' = [loc EXCEPT ![p].tasks = load_tasks]
    /\ hist' = Append(hist, <<"load", p>>)
    /\ UNCHANGED <<file, last, shown>>

\* Appended on the list as the file holds it at the time of the save
AppendedToFile(p) == Append(file, loc[p].task_data[1])

\* line 81: tasks.append(task_data)
Appended(p) == Append(loc[p].tasks, loc[p].task_data[1])

\* lines 81-83: append, save, report
ConcSave(p) ==
    /\ pc[p] = "loaded"
    /\ file' = save_tasks(Appended(p))
    /\ pc' = [pc EXCEPT ![p] = "done"]
    /\ loc' = [loc EXCEPT ![p].reported = "ok"]
    /\ hist' = Append(hist, <<"save", p>>)
    /\ UNCHANGED <<last, shown>>

ConcNext ==
    \E p \in {1, 2} :
        \/ \E inp \in AddInputs, now \in Times : ConcBuild(p, inp, now)
        \/ ConcLoad(p)
        \/ ConcSave(p)

ConcSpec == Init /\ [][ConcNext]_vars

----------------------------------------------------------------------------
\* The claims.

\* what the claims call a task's id being in use
Present(tasks, id) == \E i \in 1..Len(tasks) : tasks[i].id = id

\* the first position of an id, 0 when it is not in use
FirstAt(tasks, id) ==
    IF Present(tasks, id)
    THEN CHOOSE i \in 1..Len(tasks) :
            tasks[i].id = id /\ \A j \in 1..Len(tasks) : tasks[j].id = id => i <= j
    ELSE 0

\* the priority and the status a menu number stands for
ChoicePriority(n) == CASE n = 1 -> "LOW" [] n = 2 -> "MEDIUM" [] n = 3 -> "HIGH"
ChoiceStatus(n) == CASE n = 1 -> "PENDING" [] n = 2 -> "COMPLETED" [] n = 3 -> "IN_PROGRESS"
Offered(x) == x.kind = "int" /\ x.val \in 1..3

\* text with the blanks around it removed
Trimmed(s) ==
    IF \A i \in 1..Len(s) : s[i] = " " THEN <<>>
    ELSE LET a == CHOOSE i \in 1..Len(s) :
                      s[i] # " " /\ \A j \in 1..(i - 1) : s[j] = " "
             b == CHOOSE i \in 1..Len(s) :
                      s[i] # " " /\ \A j \in (i + 1)..Len(s) : s[j] = " "
         IN  SubSeq(s, a, b)

\* k occurs in s, letters compared without their case
ContainsIgnoringCase(s, k) ==
    \E o \in 0..(Len(s) - Len(k)) :
        \A j \in 1..Len(k) : LowerChar(s[o + j]) = LowerChar(k[j])

EqualIgnoringCase(s, k) ==
    /\ Len(s) = Len(k)
    /\ \A j \in 1..Len(k) : LowerChar(s[j]) = LowerChar(k[j])

\* the k-th smallest member of a set of positions
Nth(M, k) == CHOOSE i \in M : Cardinality({j \in M : j < i}) = k - 1

\* C1: after a successful Remove(id), the stored collection holds no task
\* whose id is that id.
C1_RemovedIdGone ==
    (last.op = "remove" /\ last.outcome = "ok") => ~Present(file, last.id)

\* C2: every stored task has a completion timestamp if and only if its
\* status is Completed; an UpdateStatus leaves the task it names with the
\* chosen status, the timestamp set to the clock for Completed and to None
\* for Pending and In Progress.
C2_CompletedIffTimestamp ==
    /\ \A i \in 1..Len(file) :
          (~file[i].completed_date.isNone) <=> (file[i].status = "COMPLETED")
    /\ (last.op = "update" /\ last.outcome = "ok" /\ Offered(last.choice)) =>
          LET t == file[FirstAt(file, last.id)]
          IN  /\ t.status = ChoiceStatus(last.choice.val)
              /\ t.completed_date =
                    IF t.status = "COMPLETED" THEN SomeTime(last.at) ELSE NoneTime

\* C2 happens: an UpdateStatus to Completed ran on a store of two tasks, the
\* other one not completed.
C2_Witness ==
    /\ last.op = "update" /\ last.outcome = "ok" /\ last.choice = NumInput(2)
    /\ Len(file) = 2
    /\ \E i, j \in 1..2 :
          /\ file[i].status = "COMPLETED" /\ ~file[i].completed_date.isNone
          /\ file[j].status = "IN_PROGRESS" /\ file[j].completed_date.isNone

\* C3: an Add whose description is not empty appends exactly one task, at
\* the end, with id = N + 1 for a store of N tasks, status Pending and the
\* given description, priority and category; the N earlier tasks and their
\* order are unchanged.  An Add whose description is empty changes nothing.
C3_AddAppends ==
    [][ last'.op = "add" =>
          IF Trimmed(last'.text) = <<>>
          THEN last'.outcome = "validation" /\ file' = file
          ELSE /\ last'.outcome = "ok"
               /\ Len(file') = Len(file) + 1
               /\ SubSeq(file', 1, Len(file)) = file
               /\ LET t == file'[Len(file')]
                  IN  /\ t.id = Len(file) + 1
                      /\ (file = <<>> => t.id = 1)
                      /\ t.status = "PENDING"
                      /\ t.completed_date = NoneTime
                      /\ t.task = Trimmed(last'.text)
                      /\ t.category = IF Trimmed(last'.cat) = <<>>
                                      THEN sGeneral ELSE Trimmed(last'.cat)
                      /\ (Offered(last'.choice) =>
                             t.priority = ChoicePriority(last'.choice.val))
                      /\ (last'.choice.kind = "empty" => t.priority = "MEDIUM")
    ]_vars

\* C3 happens: an Add ran on a store of one task whose id is not 1.
C3_Witness ==
    /\ last.op = "add" /\ last.outcome = "ok" /\ Offered(last.choice)
    /\ Len(file) = 2
    /\ file[1].id = 2
    /\ file[2].id = 2

\* C4: Remove, UpdateStatus and Edit with an id that no stored task carries
\* end with the not-found outcome and leave the stored collection as it was
\* (on an empty store they end before an id is asked for, and leave it empty).
C4_NotFoundKeepsStore ==
    [][ /\ (/\ last'.op \in {"remove", "update", "edit"}
            /\ last'.id # 0
            /\ ~Present(file, last'.id))
           => (last'.outcome = "not_found" /\ file' = file)
        /\ (/\ last'.op \in {"remove", "update", "edit"}
            /\ last'.outcome \in {"not_found", "no_tasks"})
           => file' = file
    ]_vars

\* C4 happens: an UpdateStatus named an id that is not in a store of two.
C4_Witness ==
    /\ last.op = "update" /\ last.outcome = "not_found"
    /\ Len(file) = 2
    /\ ~Present(file, last.id)

\* C5: an Edit of an id in use changes only the supplied fields of the
\* first task with that id; a field not supplied keeps its value, and the
\* id, status, creation timestamp, due date and completion timestamp of
\* that task, every other task, and the length and the order of the store
\* are unchanged.
C5_EditFrame ==
    [][ (last'.op = "edit" /\ last'.outcome = "ok") =>
          LET i == FirstAt(file, last'.id)
          IN  /\ i # 0
              /\ Len(file') = Len(file)
              /\ \A j \in 1..Len(file) : j # i => file'[j] = file[j]
              /\ file'[i].id = file[i].id
              /\ file'[i].status = file[i].status
              /\ file'[i].created = file[i].created
              /\ file'[i].due_date = file[i].due_date
              /\ file'[i].completed_date = file[i].completed_date
              /\ file'[i].task = IF Trimmed(last'.text) = <<>>
                                 THEN file[i].task ELSE Trimmed(last'.text)
              /\ file'[i].category = IF Trimmed(last'.cat) = <<>>
                                     THEN file[i].category ELSE Trimmed(last'.cat)
              /\ (Offered(last'.choice) =>
                     file'[i].priority = ChoicePriority(last'.choice.val))
              /\ (last'.choice.kind = "empty" =>
                     file'[i].priority = file[i].priority)
    ]_vars

\* C5 happens: an Edit gave a description and no category, on a store where
\* two tasks carry the edited id and the second kept another description.
C5_Witness ==
    /\ last.op = "edit" /\ last.outcome = "ok"
    /\ Trimmed(last.text) # <<>> /\ last.cat = <<>>
    /\ Len(file) = 2
    /\ file[1].id = last.id /\ file[2].id = last.id
    /\ file[1].task = Trimmed(last.text)
    /\ file[2].task # file[1].task
    /\ file[1].category = saB

\* C9: an UpdateStatus on an id in use with a number that is none of the
\* three offered choices is rejected as invalid input and leaves the stored
\* collection unchanged.
C9_ChoiceOutsideRejected ==
    [][ (/\ last'.op = "update"
         /\ Present(file, last'.id)
         /\ last'.choice.kind = "int"
         /\ last'.choice.val \notin 1..3)
        => (last'.outcome = "invalid_input" /\ file' = file)
    ]_vars

\* the rank the claims give a priority
ClaimRank(p) == CASE p = "HIGH" -> 0 [] p = "MEDIUM" -> 1 [] p = "LOW" -> 2

\* the positions of the store that pass the filters of the last List
ListMatches ==
    {i \in 1..Len(file) :
        /\ (last.status = "" \/ file[i].status = last.status)
        /\ (last.cat = <<>> \/ EqualIgnoringCase(file[i].category, last.cat))}

\* C6: List outputs exactly the stored tasks that match the filters, each
\* once, by priority rank (High = 0, Medium = 1, Low = 2), then by creation
\* timestamp, tasks that tie on both in their storage order.
C6_ListFilteredSorted ==
    last.op = "list" =>
        LET n == Cardinality(ListMatches)
        IN  /\ Len(shown) = n
            /\ (n = 0) <=> (last.outcome = "no_tasks")
            /\ \E f \in [1..n -> ListMatches] :
                  /\ \A k, l \in 1..n : k # l => f[k] # f[l]
                  /\ \A k \in 1..n : shown[k] = file[f[k]]
                  /\ \A k, l \in 1..n : k < l =>
                        LET a == file[f[k]]
                            b == file[f[l]]
                        IN  /\ ClaimRank(a.priority) <= ClaimRank(b.priority)
                            /\ (ClaimRank(a.priority) = ClaimRank(b.priority) =>
                                   a.created <= b.created)
                            /\ (/\ ClaimRank(a.priority) = ClaimRank(b.priority)
                                /\ a.created = b.created) => f[k] < f[l]

\* C6 happens: a List with both filters set, the category in another case,
\* printed the third task first and then two tasks that tie on both keys.
C6_Witness ==
    /\ last.op = "list" /\ last.outcome = "ok"
    /\ last.status = "COMPLETED" /\ last.cat = <<"A", "B">>
    /\ Len(file) = 3 /\ Len(shown) = 3
    /\ shown[1].id = 3 /\ shown[2].id = 1 /\ shown[3].id = 2
    /\ shown[2].priority = shown[3].priority
    /\ shown[2].created = shown[3].created
    /\ shown[1].created > shown[2].created

\* the positions of the store that hold the keyword of the last Search
SearchMatches ==
    {i \in 1..Len(file) :
        \/ ContainsIgnoringCase(file[i].task, Trimmed(last.text))
        \/ ContainsIgnoringCase(file[i].category, Trimmed(last.text))}

CollisionScenario == <<<<"add", 0>>, <<"add", 0>>, <<"remove", 1>>, <<"add", 0>>>>

\* C8: after Add, Add, Remove of the earlier task and Add, from an empty
\* store, two stored tasks carry the same id.
C8_ScenarioCollides ==
    hist = CollisionScenario =>
        /\ Len(file) = 2
        /\ file[1].id = file[2].id

\* C8 happens: the scenario ran and the ids of the store are not unique.
C8_Witness ==
    /\ hist = CollisionScenario
    /\ last.op = "add" /\ last.outcome = "ok"
    /\ \E i, j \in 1..Len(file) : i < j /\ file[i].id = file[j].id

\* both instances read the file (line 80) before either wrote it
BothLoadedFirst ==
    /\ Len(hist) = 4
    /\ hist[1][1] = "load"
    /\ hist[2][1] = "load"

\* C10: when both instances have loaded the collection before either saves
\* it, both Adds report success and the stored collection holds the task of
\* the instance that saved last and lacks the task of the other.
C10_LostUpdate ==
    (/\ pc[1] = "done" /\ pc[2] = "done"
     /\ loc[1].reported = "ok" /\ loc[2].reported = "ok"
     /\ BothLoadedFirst)
    => /\ Len(file) = 1
       /\ file = loc[hist[4][2]].task_data

\* C10 happens: both Adds reported success and one task is stored.
C10_Witness ==
    /\ pc[1] = "done" /\ pc[2] = "done"
    /\ loc[1].reported = "ok" /\ loc[2].reported = "ok"
    /\ BothLoadedFirst
    /\ Len(file) = 1
    /\ loc[1].task_data # loc[2].task_data

====
